---- MODULE Spec2Model ----
(***************************************************************************)
(* Models of four of the solvers, one specification each:                  *)
(*   Spec      dec10.py (Day 10: Syntax Scoring): the bracket checker      *)
(*             verify_syntax and the script body that classifies every     *)
(*             line of a file and prints the two scores;                   *)
(*   SpecBingo dec4.py (Day 4: Giant Squid): the class BingoGame;          *)
(*   SpecFish  dec6.py (Day 6: Lanternfish): the generator lanternfish;    *)
(*   SpecSub   dec2.py (Day 2: Dive!): exec with the command set p2.       *)
(* The programs share nothing: under each specification the variables of   *)
(* the other programs keep the value they start with.                      *)
(*                                                                         *)
(* A line is a sequence of one-character strings.  Python positions are    *)
(* 0-based; a TLA+ sequence is 1-based, so line[i] of the code is          *)
(* line[i + 1] here.                                                       *)
(***************************************************************************)
EXTENDS Integers, Sequences, FiniteSets, TLC

\* dec10.py
VARIABLES lines, idx, valid, illegal, missing, outcome, pc, out, err
\* dec4.py
VARIABLES picks, cards, turn, remaining, bpc, all_winners, ret, reported
\* dec6.py
VARIABLES input, iterations, dict, day, yielded, fpc
\* dec2.py
VARIABLES program, ip, state

vars10 == <<lines, idx, valid, illegal, missing, outcome, pc, out, err>>

vars4 == <<picks, cards, turn, remaining, bpc, all_winners, ret, reported>>

vars6 == <<input, iterations, dict, day, yielded, fpc>>

vars2 == <<program, ip, state>>

vars == <<vars10, vars4, vars6, vars2>>

\* a program that is not run
Idle10 ==
    /\ lines = <<>> /\ idx = 0 /\ valid = <<>> /\ illegal = 0 /\ missing = <<>>
    /\ outcome = <<>> /\ pc = "off" /\ out = <<>> /\ err = "none"

Idle4 ==
    /\ picks = <<>> /\ cards = <<>> /\ turn = 0 /\ remaining = <<>>
    /\ bpc = "off" /\ all_winners = <<>> /\ ret = <<>> /\ reported = <<>>

Idle6 ==
    /\ input = <<>> /\ iterations = 0 /\ dict = <<>> /\ day = 0
    /\ yielded = <<>> /\ fpc = "off"

Idle2 == program = <<>> /\ ip = 0 /\ state = <<>>

(***************************************************************************)
(* Bounds of the model.                                                    *)
(***************************************************************************)
\* longest line of a one-line file, every line over the alphabet is tried
MaxLen == 4
\* most lines of a file whose lines are drawn from Pool
MaxBatch == 3

(***************************************************************************)
(* Module-level tables of dec10.py.                                        *)
(***************************************************************************)
pairs == << <<"[", "]">>, <<"(", ")">>, <<"{", "}">>, <<"<", ">">> >>

illegal_scores == [c \in {")", "]", "}", ">"} |->
    CASE c = ")" -> 3 [] c = "]" -> 57 [] c = "}" -> 1197 [] c = ">" -> 25137]

missing_scores == [c \in {")", "]", "}", ">"} |->
    CASE c = ")" -> 1 [] c = "]" -> 2 [] c = "}" -> 3 [] c = ">" -> 4]

opening == {pairs[k][1] : k \in DOMAIN pairs}

map_to_closing == [o \in {pairs[k][1] : k \in DOMAIN pairs} |->
    pairs[CHOOSE k \in DOMAIN pairs : pairs[k][1] = o][2]]

map_from_closing == [c \in {pairs[k][2] : k \in DOMAIN pairs} |->
    pairs[CHOOSE k \in DOMAIN pairs : pairs[k][2] = c][1]]

(***************************************************************************)
(* verify_syntax.  The for loop is for_loop(line, i, stack): the scan from *)
(* position i with the stack held on entering iteration i.  It ends with   *)
(* the exception raised inside the loop, if any, and the stack left.       *)
(***************************************************************************)
\* line 107: if c in opening
is_opening(c) == c \in opening

\* line 109: if c in map_from_closing
is_closing(c) == c \in DOMAIN map_from_closing

\* line 108: stack += [c]
push(stack, c) == Append(stack, c)

\* peek with a fault: the outermost open symbol, stack[0]
peek_outermost(stack) == stack[1]

\* line 111: last = stack[-1], evaluated on a non-empty stack
peek(stack) == stack[Len(stack)]

\* pop with a fault: the matched symbol stays on the stack
pop_nothing(stack) == stack

\* line 115: stack = stack[:-1]
pop(stack) == SubSeq(stack, 1, Len(stack) - 1)

\* line 112: if last != expected
mismatch(last, expected) == last # expected

\* line 113: the position handed to SyntaxError is the loop index i
error_pos(i) == i

\* for_loop with a fault: the scan ends at the first character that is no
\* bracket symbol
RECURSIVE for_loop_until_other(_, _, _)
for_loop_until_other(line, i, stack) ==
    IF i >= Len(line)
    THEN [raised |-> "none", pos |-> -1, stack |-> stack]
    ELSE LET c  == line[i + 1]
             s1 == IF is_opening(c) THEN push(stack, c) ELSE stack
         IN  IF is_closing(c)
             THEN IF s1 = <<>>
                  THEN [raised |-> "IndexError", pos |-> i, stack |-> s1]
                  ELSE IF mismatch(peek(s1), map_from_closing[c])
                       THEN [raised |-> "SyntaxError", pos |-> error_pos(i),
                             stack |-> s1]
                       ELSE for_loop_until_other(line, i + 1, pop(s1))
             ELSE IF is_opening(c)
                  THEN for_loop_until_other(line, i + 1, s1)
                  ELSE [raised |-> "none", pos |-> -1, stack |-> s1]

RECURSIVE for_loop(_, _, _)
for_loop(line, i, stack) ==
    IF i >= Len(line)
    THEN [raised |-> "none", pos |-> -1, stack |-> stack]
    ELSE LET c  == line[i + 1]
             s1 == IF is_opening(c) THEN push(stack, c) ELSE stack
         IN  IF is_closing(c)
             THEN IF s1 = <<>>
                  THEN \* stack[-1] of an empty list
                       [raised |-> "IndexError", pos |-> i, stack |-> s1]
                  ELSE IF mismatch(peek(s1), map_from_closing[c])
                       THEN [raised |-> "SyntaxError", pos |-> error_pos(i),
                             stack |-> s1]
                       ELSE for_loop(line, i + 1, pop(s1))
             ELSE for_loop(line, i + 1, s1)

\* expecting_of with a fault: the stack is not reversed
expecting_outermost_first(stack) ==
    [k \in 1..Len(stack) |-> map_to_closing[stack[k]]]

\* lines 117-118: stack.reverse(); [map_to_closing[x] for x in stack]
expecting_of(stack) ==
    [k \in 1..Len(stack) |-> map_to_closing[stack[Len(stack) + 1 - k]]]

\* The way a call of verify_syntax ends: kind is "Valid" for a normal
\* return and the exception's class otherwise; line, pos and expecting are
\* the exception's fields (pos = -1 and expecting = <<>> where the
\* exception has no such field).
verify_syntax(line) ==
    LET r == for_loop(line, 0, <<>>)
    IN  IF r.raised = "SyntaxError"
        THEN [kind |-> "SyntaxError", line |-> line, pos |-> r.pos,
              expecting |-> <<>>]
        ELSE IF r.raised = "IndexError"
        THEN [kind |-> "IndexError", line |-> line, pos |-> -1,
              expecting |-> <<>>]
        ELSE IF Len(r.stack) > 0
        THEN [kind |-> "IncompleteLineError", line |-> line, pos |-> -1,
              expecting |-> expecting_of(r.stack)]
        ELSE [kind |-> "Valid", line |-> line, pos |-> -1,
              expecting |-> <<>>]

(***************************************************************************)
(* The script body, for one file.                                          *)
(***************************************************************************)
\* lines 142-144: score = 0; for x in e.expecting: score = score*5 + ...
RECURSIVE score_loop(_, _, _)
score_loop(expecting, k, score) ==
    IF k > Len(expecting) THEN score
    ELSE score_loop(expecting, k + 1, score * 5 + missing_scores[expecting[k]])

\* missing_score with a fault: the closers are folded last to first
missing_score_backwards(expecting) ==
    score_loop([k \in 1..Len(expecting) |-> expecting[Len(expecting) + 1 - k]],
               1, 0)

missing_score(expecting) == score_loop(expecting, 1, 0)

\* illegal_score with a fault: the table of the missing scores is read
illegal_score_other_table(line, pos) == missing_scores[line[pos + 1]]

\* lines 139-140: c = line[e.pos]; illegal_scores[c]
illegal_score(line, pos) == illegal_scores[line[pos + 1]]

\* sorted(missing): ascending, by insertion of each element in turn
RECURSIVE insert(_, _)
insert(s, x) ==
    IF s = <<>> THEN <<x>>
    ELSE IF x < s[1] THEN <<x>> \o s
    ELSE <<s[1]>> \o insert(Tail(s), x)

\* sorted with a fault: the list is left in the order of the file
sorted_not(s) == s

RECURSIVE sorted(_)
sorted(s) ==
    IF s = <<>> THEN <<>>
    ELSE insert(sorted(SubSeq(s, 1, Len(s) - 1)), s[Len(s)])

\* line 148: int(len(missing) / 2)
middle_index(n) == n \div 2

(***************************************************************************)
(* Inputs: the files the script is run on.                                 *)
(***************************************************************************)
Alphabet == {"(", ")", "[", "]", "{", "}", "<", ">", "\n"}

LinesUpTo(n) == UNION {[1..k -> Alphabet] : k \in 0..n}

\* the example of the module comment, as readlines() returns it
ExampleLines == <<
    <<"[","(","{","(","<","(","(",")",")","[","]",">","[","[","{","[","]","{","<","(",")","<",">",">","\n">>,
    <<"[","(","(",")","[","<",">","]",")","]","(","{","[","<","{","<","<","[","]",">",">","(","\n">>,
    <<"{","(","[","(","<","{","}","[","<",">","[","]","}",">","{","[","]","{","[","(","<","(",")",">","\n">>,
    <<"(","(","(","(","{","<",">","}","<","{","<","{","<",">","}","{","[","]","{","[","]","{","}","\n">>,
    <<"[","[","<","[","(","[","]",")",")","<","(","[","[","{","}","[","[","(",")","]","]","]","\n">>,
    <<"[","{","[","{","(","{","}","]","{","}","}","(","[","{","[","{","{","{","}","}","(","[","]","\n">>,
    <<"{","<","[","[","]","]",">","}","<","{","[","{","[","{","[","]","{","(",")","[","[","[","]","\n">>,
    <<"[","<","(","<","(","<","(","<","{","}",")",")",">","<","(","[","]","(","[","]","(",")","\n">>,
    <<"<","{","(","[","(","[","[","(","<",">","(",")",")","{","}","]",">","(","<","<","{","{","\n">>,
    <<"<","{","(","[","{","{","}","}","[","<","[","[","[","<",">","{","}","]","]","]",">","[","]","]","\n">> >>

\* lines of every classification, with different scores
Pool == {
    <<"(", ")", "\n">>,
    <<"(", "\n">>,
    <<"[", "(", "\n">>,
    <<"{", "<", "\n">>,
    <<"(", "]", "\n">>,
    <<"[", ">", "\n">>,
    <<"<", "}", "(", "\n">>,
    <<")", "\n">> }

Files ==
    {<<l>> : l \in LinesUpTo(MaxLen)}
    \cup UNION {[1..k -> Pool] : k \in 0..MaxBatch}
    \cup {ExampleLines}

NoOutcome == [kind |-> "none", line |-> <<>>, pos |-> -1, expecting |-> <<>>]

(***************************************************************************)
(* The state machine: lines is what readlines() returned, idx the number   *)
(* of lines the for loop has taken, outcome the way the last call of       *)
(* verify_syntax ended, out what was printed, err the uncaught exception   *)
(* that ended the script ("none" while there is none).                     *)
(***************************************************************************)
Init ==
    /\ lines \in Files
    /\ idx = 0
    /\ valid = <<>>
    /\ illegal = 0
    /\ missing = <<>>
    /\ outcome = NoOutcome
    /\ pc = "loop"
    /\ out = <<>>
    /\ err = "none"
    /\ Idle4 /\ Idle6 /\ Idle2

\* lines 136-137: verify_syntax returns
LineValid ==
    /\ pc = "loop" /\ idx < Len(lines)
    /\ LET r == verify_syntax(lines[idx + 1])
       IN  /\ r.kind = "Valid"
           /\ outcome' = r
           /\ valid' = valid \o <<lines[idx + 1]>>
    /\ idx' = idx + 1
    /\ UNCHANGED <<lines, illegal, missing, pc, out, err>>
    /\ UNCHANGED <<vars4, vars6, vars2>>

\* LineSyntaxError with a fault: the corrupted line ends the for loop
LineSyntaxError_break ==
    /\ pc = "loop" /\ idx < Len(lines)
    /\ LET r == verify_syntax(lines[idx + 1])
       IN  /\ r.kind = "SyntaxError"
           /\ outcome' = r
           /\ illegal' = illegal + illegal_score(lines[idx + 1], r.pos)
    /\ idx' = Len(lines)
    /\ UNCHANGED <<lines, valid, missing, pc, out, err>>
    /\ UNCHANGED <<vars4, vars6, vars2>>

\* lines 138-140: except SyntaxError as e
LineSyntaxError ==
    /\ pc = "loop" /\ idx < Len(lines)
    /\ LET r == verify_syntax(lines[idx + 1])
       IN  /\ r.kind = "SyntaxError"
           /\ outcome' = r
           /\ illegal' = illegal + illegal_score(lines[idx + 1], r.pos)
    /\ idx' = idx + 1
    /\ UNCHANGED <<lines, valid, missing, pc, out, err>>
    /\ UNCHANGED <<vars4, vars6, vars2>>

\* lines 141-145: except IncompleteLineError as e
LineIncomplete ==
    /\ pc = "loop" /\ idx < Len(lines)
    /\ LET r == verify_syntax(lines[idx + 1])
       IN  /\ r.kind = "IncompleteLineError"
           /\ outcome' = r
           /\ missing' = missing \o <<missing_score(r.expecting)>>
    /\ idx' = idx + 1
    /\ UNCHANGED <<lines, valid, illegal, pc, out, err>>
    /\ UNCHANGED <<vars4, vars6, vars2>>

\* line 111 raises IndexError, which no except clause of the loop catches:
\* the script ends with the traceback
LineIndexError ==
    /\ pc = "loop" /\ idx < Len(lines)
    /\ LET r == verify_syntax(lines[idx + 1])
       IN  /\ r.kind = "IndexError"
           /\ outcome' = r
    /\ pc' = "crashed"
    /\ err' = "IndexError in verify_syntax"
    /\ UNCHANGED <<lines, idx, valid, illegal, missing, out>>
    /\ UNCHANGED <<vars4, vars6, vars2>>

\* line 147: print(filename, ": illegal_score =", illegal)
PrintIllegal ==
    /\ pc = "loop" /\ idx = Len(lines)
    /\ out' = out \o <<illegal>>
    /\ pc' = "print_missing"
    /\ UNCHANGED <<lines, idx, valid, illegal, missing, outcome, err>>
    /\ UNCHANGED <<vars4, vars6, vars2>>

\* line 148: print(..., sorted(missing)[int(len(missing) / 2)])
PrintMissing ==
    /\ pc = "print_missing"
    /\ middle_index(Len(missing)) < Len(missing)
    /\ out' = out \o <<sorted(missing)[middle_index(Len(missing)) + 1]>>
    /\ pc' = "done"
    /\ UNCHANGED <<lines, idx, valid, illegal, missing, outcome, err>>
    /\ UNCHANGED <<vars4, vars6, vars2>>

\* line 148 on an empty list: sorted([])[0] raises IndexError
PrintMissingIndexError ==
    /\ pc = "print_missing"
    /\ ~(middle_index(Len(missing)) < Len(missing))
    /\ pc' = "crashed"
    /\ err' = "IndexError in print"
    /\ UNCHANGED <<lines, idx, valid, illegal, missing, outcome, out>>
    /\ UNCHANGED <<vars4, vars6, vars2>>

Next ==
    \/ LineValid
    \/ LineSyntaxError
    \/ LineIncomplete
    \/ LineIndexError
    \/ PrintIllegal
    \/ PrintMissing
    \/ PrintMissingIndexError

Spec == Init /\ [][Next]_vars

(***************************************************************************)
(* Reference notions the properties are stated with.  They are defined     *)
(* from the grammar of chunks, not from the stack of verify_syntax.        *)
(***************************************************************************)
Openers == {"(", "[", "{", "<"}

Closers == {")", "]", "}", ">"}

Closer(o) ==
    CASE o = "(" -> ")" [] o = "[" -> "]" [] o = "{" -> "}" [] o = "<" -> ">"

IsBracket(c) == c \in Openers \cup Closers

\* the line without the characters that are no bracket symbol
Strip(line) == SelectSeq(line, IsBracket)

\* number of characters before Python position i that are no bracket symbol
OthersBefore(line, i) == Cardinality({k \in 1..i : ~IsBracket(line[k])})

\* S ::= empty | open S close S, the close being the closer of the open
RECURSIVE IsWellNested(_)
IsWellNested(s) ==
    \/ s = <<>>
    \/ /\ s[1] \in Openers
       /\ \E j \in 2..Len(s) :
            /\ s[j] = Closer(s[1])
            /\ IsWellNested(SubSeq(s, 2, j - 1))
            /\ IsWellNested(SubSeq(s, j + 1, Len(s)))

\* the positions (1-based) of the opening symbols no later symbol closes
StillOpen(line) ==
    {p \in 1..Len(line) :
        /\ line[p] \in Openers
        /\ ~\E q \in (p + 1)..Len(line) :
              /\ line[q] = Closer(line[p])
              /\ IsWellNested(Strip(SubSeq(line, p + 1, q - 1)))}

\* the k-th largest element of a set of numbers
RECURSIVE KthLargest(_, _)
KthLargest(S, k) ==
    LET m == CHOOSE x \in S : \A y \in S : y <= x
    IN  IF k = 1 THEN m ELSE KthLargest(S \ {m}, k - 1)

\* the closers of the symbols still open, innermost first
Completion(line) ==
    LET S == StillOpen(line)
    IN  [k \in 1..Cardinality(S) |-> Closer(line[KthLargest(S, k)])]

\* the line is the beginning of a well nested line: nothing in it is
\* mismatched, and no closing symbol comes with nothing open
Clean(line) == IsWellNested(Strip(line) \o Completion(line))

Prefix(line, i) == SubSeq(line, 1, i)

Called == outcome.kind # "none"

(***************************************************************************)
(* Properties.                                                             *)
(***************************************************************************)

\* C1: every line in which a closing symbol is met while nothing is open
\* (the symbols before it are well nested) is classified Corrupted,
\* SyntaxError, at the position of that closing symbol, and ends in no
\* other fault.
C1_EmptyStackCloserIsCorrupted ==
    Called =>
        \A i \in 0..(Len(outcome.line) - 1) :
            (/\ outcome.line[i + 1] \in Closers
             /\ IsWellNested(Strip(Prefix(outcome.line, i))))
            => (outcome.kind = "SyntaxError" /\ outcome.pos = i)

\* C2: a line made only of bracket symbols that is well nested, the empty
\* line included, is classified Valid: verify_syntax returns normally.
C2_WellNestedIsValid ==
    (Called /\ Strip(outcome.line) = outcome.line /\ IsWellNested(outcome.line))
    => outcome.kind = "Valid"

C2_Witness ==
    /\ outcome.kind = "Valid"
    /\ Len(outcome.line) = 4
    /\ Strip(outcome.line) = outcome.line
    /\ outcome.line[2] \in Openers
    /\ outcome.line[2] # outcome.line[1]

\* C3: where the symbols before position i are clean and leave something
\* open, and line[i] is a closing symbol other than the closer of the
\* innermost open symbol, the line is Corrupted with pos = i, line[pos] is
\* that closing symbol, and the line cut after position i ends the same way.
C3_FirstMismatchIsReported ==
    Called =>
        \A i \in 0..(Len(outcome.line) - 1) :
            LET before == Prefix(outcome.line, i)
                c      == outcome.line[i + 1]
            IN  (/\ c \in Closers
                 /\ Clean(before)
                 /\ Completion(before) # <<>>
                 /\ c # Completion(before)[1])
                => /\ outcome.kind = "SyntaxError"
                   /\ outcome.pos = i
                   /\ outcome.line[outcome.pos + 1] = c
                   /\ verify_syntax(Prefix(outcome.line, i + 1)).kind = outcome.kind
                   /\ verify_syntax(Prefix(outcome.line, i + 1)).pos = outcome.pos

C3_Witness ==
    /\ outcome.kind = "SyntaxError"
    /\ outcome.pos = 2
    /\ Len(outcome.line) = 4
    /\ outcome.line[4] \in Closers
    /\ Completion(Prefix(outcome.line, 2)) # <<>>
    /\ outcome.line[3] # Completion(Prefix(outcome.line, 2))[1]

\* C4: for a line classified Incomplete, expecting is the closers of the
\* symbols still open, innermost first, and the line followed by expecting
\* is classified Valid.
C4_ExpectingCompletesTheLine ==
    outcome.kind = "IncompleteLineError" =>
        /\ outcome.expecting = Completion(outcome.line)
        /\ verify_syntax(outcome.line \o outcome.expecting).kind = "Valid"

C4_Witness ==
    /\ outcome.kind = "IncompleteLineError"
    /\ Len(outcome.expecting) >= 2
    /\ outcome.expecting[1] # outcome.expecting[2]
    /\ verify_syntax(outcome.line \o outcome.expecting).kind = "Valid"

\* C5: every call of verify_syntax ends in one of Valid, SyntaxError and
\* IncompleteLineError, and a line with a mismatching closer that also
\* leaves symbols open is Corrupted, never Incomplete.
C5_ExactlyOneOfThreeOutcomes ==
    Called =>
        /\ outcome.kind \in {"Valid", "SyntaxError", "IncompleteLineError"}
        /\ outcome.kind = "IncompleteLineError" => Clean(outcome.line)

(***************************************************************************)
(* Reference notions of the two scores.                                    *)
(***************************************************************************)
IllegalTable(c) ==
    CASE c = ")" -> 3 [] c = "]" -> 57 [] c = "}" -> 1197 [] c = ">" -> 25137

MissingTable(c) ==
    CASE c = ")" -> 1 [] c = "]" -> 2 [] c = "}" -> 3 [] c = ">" -> 4

\* what line number k of the file adds to the illegal score
IllegalOfLine(line) ==
    LET r == verify_syntax(line)
    IN  IF r.kind = "SyntaxError" THEN IllegalTable(line[r.pos + 1]) ELSE 0

RECURSIVE SumIllegal(_, _)
SumIllegal(ls, k) ==
    IF k = 0 THEN 0 ELSE SumIllegal(ls, k - 1) + IllegalOfLine(ls[k])

RECURSIVE Pow5(_)
Pow5(n) == IF n = 0 THEN 1 ELSE 5 * Pow5(n - 1)

\* the value of the closers read as a number in base 5, first closer first
RECURSIVE Base5(_, _)
Base5(cs, k) ==
    IF k = 0 THEN 0
    ELSE Base5(cs, k - 1) + MissingTable(cs[k]) * Pow5(Len(cs) - k)

\* the numbers of the lines classified Incomplete
IncompleteLines(ls) ==
    {k \in 1..Len(ls) : verify_syntax(ls[k]).kind = "IncompleteLineError"}

ScoreOfLine(line) ==
    LET cs == Completion(line) IN Base5(cs, Len(cs))

\* v is the element at 0-based index k of the ascending list of the scores
\* of the Incomplete lines
IsAtSortedIndex(ls, v, k) ==
    LET I == IncompleteLines(ls)
    IN  /\ \E j \in I : ScoreOfLine(ls[j]) = v
        /\ Cardinality({j \in I : ScoreOfLine(ls[j]) < v}) <= k
        /\ k < Cardinality({j \in I : ScoreOfLine(ls[j]) <= v})

ExampleClosers == <<"}", "}", "]", "]", ")", "}", ")", "]">>

(***************************************************************************)
(* Properties of the script body.                                          *)
(***************************************************************************)

\* C6: the illegal score that is printed is the sum, over the lines
\* classified Corrupted, of the table value of the symbol at the reported
\* position; Valid and Incomplete lines add nothing; the example gives 26397.
C6_IllegalScoreIsSumOverCorrupted ==
    Len(out) >= 1 =>
        /\ out[1] = SumIllegal(lines, Len(lines))
        /\ lines = ExampleLines => out[1] = 26397

C6_Witness ==
    /\ Len(out) >= 1
    /\ Len(lines) = 3
    /\ out[1] = 1197 + 57
    /\ valid # <<>>

\* C7: the score of an Incomplete line is the left-to-right fold
\* score*5 + value of its expected closers from 0, that is the closers read
\* in base 5; the first example line has closers }}]])})] and score 288957.
C7_MissingScoreIsFold ==
    outcome.kind = "IncompleteLineError" =>
        /\ Len(missing) >= 1
        /\ missing[Len(missing)] = Base5(outcome.expecting, Len(outcome.expecting))
        /\ outcome.line = ExampleLines[1] =>
              /\ outcome.expecting = ExampleClosers
              /\ missing[Len(missing)] = 288957

C7_Witness ==
    /\ outcome.kind = "IncompleteLineError"
    /\ outcome.line = ExampleLines[1]
    /\ missing = <<288957>>

\* C8: for every file, the empty file and a file with no Incomplete line
\* included, the report of the two results raises no fault, and the empty
\* file ends with illegal score 0 and no missing score.
C8_ReportRaisesNoFault ==
    /\ err # "IndexError in print"
    /\ (lines = <<>> /\ pc \notin {"loop", "print_missing"})
       => (pc = "done" /\ out[1] = 0 /\ missing = <<>>)

\* C9: with at least one Incomplete line, the missing score that is printed
\* is the element at index count / 2 of the ascending list of the scores of
\* the Incomplete lines, count being their number.
C9_MissingScoreIsMiddle ==
    (pc = "done" /\ IncompleteLines(lines) # {}) =>
        /\ Len(out) = 2
        /\ IsAtSortedIndex(lines, out[2], Cardinality(IncompleteLines(lines)) \div 2)

C9_Witness ==
    /\ pc = "done"
    /\ Len(missing) = 3
    /\ missing[1] > missing[2]
    /\ missing[2] < missing[3]
    /\ missing[3] < missing[1]
    /\ out[2] = missing[3]

\* C10: characters that are no bracket symbol are neither pushed nor
\* compared: a line ends as the line without them does, with the same
\* offending symbol and the same expected closers, the position moved by
\* the number of such characters before it.
C10_OtherCharactersAreIgnored ==
    Called =>
        LET s == verify_syntax(Strip(outcome.line))
        IN  /\ s.kind = outcome.kind
            /\ s.expecting = outcome.expecting
            /\ outcome.kind = "SyntaxError" =>
                 /\ outcome.line[outcome.pos + 1] = Strip(outcome.line)[s.pos + 1]
                 /\ outcome.pos = s.pos + OthersBefore(outcome.line, outcome.pos)

C10_Witness ==
    /\ outcome.kind = "SyntaxError"
    /\ OthersBefore(outcome.line, outcome.pos) >= 1
    /\ ~IsBracket(outcome.line[2])
    /\ Len(outcome.line) = 4
    /\ outcome.pos = 2

(***************************************************************************)
(* The classification of a line by the grammar alone.                      *)
(***************************************************************************)
RefValid(line) == IsWellNested(Strip(line))

RefIncomplete(line) == Clean(line) /\ Completion(line) # <<>>

\* the scores of the Incomplete lines among the first k lines, in order
RECURSIVE RefMissing(_, _)
RefMissing(ls, k) ==
    IF k = 0 THEN <<>>
    ELSE RefMissing(ls, k - 1)
         \o (IF RefIncomplete(ls[k]) THEN <<ScoreOfLine(ls[k])>> ELSE <<>>)

MaxSkip == 4
\* most cards of a game
MaxCards == 3

\* line 103
transpose(matrix) ==
    [i \in 1..Len(matrix[1]) |-> [j \in 1..Len(matrix) |-> matrix[j][i]]]

\* x in numbers, numbers a list
contains(numbers, x) == \E k \in 1..Len(numbers) : numbers[k] = x

\* lines 113-117: some row has every number in numbers
horiz_match(grid, numbers) ==
    \E r \in 1..Len(grid) : \A k \in 1..Len(grid[r]) : contains(numbers, grid[r][k])

\* lines 119-122
has_won(grid, numbers) ==
    horiz_match(grid, numbers) \/ horiz_match(transpose(grid), numbers)

RECURSIVE sum_list(_)
sum_list(xs) == IF xs = <<>> THEN 0 ELSE xs[1] + sum_list(Tail(xs))

RECURSIVE flatten(_)
flatten(grid) == IF grid = <<>> THEN <<>> ELSE grid[1] \o flatten(Tail(grid))

\* lines 124-125
not_matching(grid, numbers) ==
    LET unmarked(x) == ~contains(numbers, x)
    IN  SelectSeq(flatten(grid), unmarked)

\* lines 128-132: Winner(card, picks)
Winner(card, pks) ==
    [card |-> card, picks |-> pks,
     score |-> pks[Len(pks)] * sum_list(not_matching(cards[card], pks))]

\* line 155: [card for card in self.remaining if card.has_won(picks)]
winners_among(rem, pks) ==
    LET won(card) == has_won(cards[card], pks)
    IN  SelectSeq(rem, won)

\* lines 152-156: the while loop, from the turn t with the winners w found
\* so far; pks is the local picks, <<>> while it is not assigned
RECURSIVE find_loop(_, _, _, _)
find_loop(t, w, pks, rem) ==
    IF Len(w) = 0 /\ t < Len(picks)
    THEN find_loop(t + 1, winners_among(rem, SubSeq(picks, 1, t)),
                   SubSeq(picks, 1, t), rem)
    ELSE [turn |-> t, winners |-> w, picks |-> pks]

\* lines 157-158: for w in winners: self.remaining.remove(w)
remove_all(rem, ws) ==
    LET stays(card) == \A k \in 1..Len(ws) : ws[k] # card
    IN  SelectSeq(rem, stays)

\* lines 151-159: the new turn, the new remaining and the value returned
find_next_winners ==
    LET r == find_loop(turn, <<>>, <<>>, remaining)
    IN  [turn      |-> r.turn,
         remaining |-> remove_all(remaining, r.winners),
         winners   |-> [k \in 1..Len(r.winners) |-> Winner(r.winners[k], r.picks)],
         last      |-> r.turn - 1]

\* line 177: lambda g: len(g.remaining) == 1
only_one_left == Len(remaining) = 1

\* the example of the module comment: the numbers drawn and the boards
ExampleDraw == <<7, 4, 9, 5, 11, 17, 23, 2, 0, 14, 21, 24, 10, 16, 13, 6, 15,
                 25, 12, 22, 18, 20, 8, 19, 3, 26, 1>>

ExampleBoards == <<
    << <<22, 13, 17, 11,  0>>,
       << 8,  2, 23,  4, 24>>,
       <<21,  9, 14, 16,  7>>,
       << 6, 10,  3, 18,  5>>,
       << 1, 12, 20, 15, 19>> >>,
    << << 3, 15,  0,  2, 22>>,
       << 9, 18, 13, 17,  5>>,
       <<19,  8,  7, 25, 23>>,
       <<20, 11, 10, 24,  4>>,
       <<14, 21, 16, 12,  6>> >>,
    << <<14, 21, 17, 24,  4>>,
       <<10, 16, 15,  9, 19>>,
       <<18,  8, 23, 26, 20>>,
       <<22, 11, 13,  6,  5>>,
       << 2,  0, 12,  3,  7>> >> >>

\* the first line of a file: a run of the example's numbers, at least one
\* (an empty first line fails in int(""))
Draws ==
    {SubSeq(ExampleDraw, a, b) : a \in 1..(MaxSkip + 1), b \in 1..Len(ExampleDraw)}
    \ {<<>>}

\* the cards of a file: the example's boards, any of them, any number of
\* times, in any order
Decks == UNION {[1..k -> {ExampleBoards[b] : b \in 1..Len(ExampleBoards)}] :
                k \in 0..MaxCards}

\* lines 139-149: BingoGame(filename)
InitBingo ==
    /\ picks \in Draws
    /\ cards \in Decks
    /\ turn = 1
    /\ remaining = [k \in 1..Len(cards) |-> k]
    /\ bpc = "idle"
    /\ all_winners = <<>>
    /\ ret = [method |-> "none", winners |-> <<>>, last |-> 0]
    /\ reported = <<>>
    /\ Idle10 /\ Idle6 /\ Idle2

\* lines 174, 178: game.find_next_winners()
FindNextWinners ==
    /\ bpc = "idle"
    /\ LET r == find_next_winners
       IN  /\ turn' = r.turn
           /\ remaining' = r.remaining
           /\ ret' = [method |-> "find_next_winners", winners |-> r.winners,
                      last |-> r.last]
           /\ reported' = reported \o r.winners
    /\ UNCHANGED <<picks, cards, bpc, all_winners>>
    /\ UNCHANGED <<vars10, vars6, vars2>>

\* line 164: find_next_winners_until is called, all_winners = []
UntilCall ==
    /\ bpc = "idle"
    /\ bpc' = "until"
    /\ all_winners' = <<>>
    /\ UNCHANGED <<picks, cards, turn, remaining, ret, reported>>
    /\ UNCHANGED <<vars10, vars6, vars2>>

\* lines 165-167: not fn(self), one round of the while loop
UntilRound ==
    /\ bpc = "until"
    /\ ~only_one_left
    /\ LET r == find_next_winners
       IN  /\ turn' = r.turn
           /\ remaining' = r.remaining
           /\ all_winners' = all_winners \o r.winners
           /\ reported' = reported \o r.winners
    /\ UNCHANGED <<picks, cards, bpc, ret>>
    /\ UNCHANGED <<vars10, vars6, vars2>>

\* lines 165, 168: fn(self), return all_winners, self.turn - 1
UntilReturn ==
    /\ bpc = "until"
    /\ only_one_left
    /\ ret' = [method |-> "find_next_winners_until", winners |-> all_winners,
               last |-> turn - 1]
    /\ bpc' = "idle"
    /\ UNCHANGED <<picks, cards, turn, remaining, all_winners, reported>>
    /\ UNCHANGED <<vars10, vars6, vars2>>

NextBingo ==
    \/ FindNextWinners
    \/ UntilCall
    \/ UntilRound
    \/ UntilReturn

SpecBingo == InitBingo /\ [][NextBingo]_vars

(***************************************************************************)
(* The game by its rules: a card wins at the first number drawn that       *)
(* completes one of its rows or columns.                                   *)
(***************************************************************************)
Drawn(n) == {picks[k] : k \in 1..n}

\* after n numbers, some row or some column of the grid is all marked
Complete(grid, n) ==
    \/ \E r \in 1..Len(grid) : \A c \in 1..Len(grid[r]) : grid[r][c] \in Drawn(n)
    \/ \E c \in 1..Len(grid[1]) : \A r \in 1..Len(grid) : grid[r][c] \in Drawn(n)

Wins(card) == \E n \in 1..Len(picks) : Complete(cards[card], n)

FirstWin(card) == CHOOSE n \in 1..Len(picks) :
    /\ Complete(cards[card], n)
    /\ \A m \in 1..(n - 1) : ~Complete(cards[card], m)

\* C12: repeated calls of find_next_winners report every card that has a
\* complete row or column after some prefix of the picks, each at the
\* shortest such prefix, the full list included: what is reported was
\* reported at the card's first win, with the number drawn then as the last
\* pick, and once a call reports no winner every card that wins has been
\* reported.
C12_EveryWinnerIsReported ==
    /\ \A k \in 1..Len(reported) :
          /\ Wins(reported[k].card)
          /\ reported[k].picks = SubSeq(picks, 1, FirstWin(reported[k].card))
    /\ (ret.method = "find_next_winners" /\ ret.winners = <<>>)
       => \A card \in 1..Len(cards) :
             Wins(card) => \E k \in 1..Len(reported) : reported[k].card = card

\* C15: find_next_winners_until with len(remaining) == 1 terminates, leaves
\* exactly one card in remaining, and no card is reported twice.  The loop
\* ends only if no round starts from a state it cannot change: a round with
\* turn >= len(picks) finds nothing and leaves the game as it is, so the
\* test fails again, for ever.
C15_UntilOneLeftTerminates ==
    /\ (bpc = "until" /\ ~only_one_left) => turn < Len(picks)
    /\ ret.method = "find_next_winners_until" => Len(remaining) = 1
    /\ \A a, b \in 1..Len(reported) :
          a # b => reported[a].card # reported[b].card

(***************************************************************************)
(* dec6.py (Day 6: Lanternfish).  dict is a defaultdict(int): a function   *)
(* on the keys it holds; reading a key it does not hold gives 0 and puts   *)
(* the key in.                                                             *)
(***************************************************************************)
\* most fish in the list a file gives
MaxFish == 2
\* most days asked for
MaxDays == 10

\* the value of dict[k]
get(d, k) == IF k \in DOMAIN d THEN d[k] ELSE 0

\* dict[k] = v
put(d, k, v) == [j \in DOMAIN d \cup {k} |-> IF j = k THEN v ELSE d[j]]

\* lines 90-91: for el in input: dict[int(el)] += 1
RECURSIVE load(_, _, _)
load(d, els, k) ==
    IF k > Len(els) THEN d
    ELSE load(put(d, els[k], get(d, els[k]) + 1), els, k + 1)

\* lines 98-99: for i in range(0, 8): dict[i] = dict[i + 1]
RECURSIVE shift_left(_, _)
shift_left(d, i) ==
    IF i >= 8 THEN d
    ELSE shift_left(put(put(d, i + 1, get(d, i + 1)), i, get(d, i + 1)), i + 1)

\* reset_counter with a fault: dict[6] = births
reset_counter_assign(d, births) == put(d, 6, births)

\* line 101: dict[6] += births
reset_counter(d, births) == put(d, 6, get(d, 6) + births)

\* lines 96-103: one round of the for loop
one_day(d) ==
    LET births == get(d, 0)
        d0     == put(d, 0, births)
        d1     == shift_left(d0, 0)
        d2     == reset_counter(d1, births)
    IN  put(d2, 8, births)

\* sum(dict.values())
RECURSIVE sum_values(_, _)
sum_values(d, keys) ==
    IF keys = {} THEN 0
    ELSE LET k == CHOOSE x \in keys : TRUE
         IN  d[k] + sum_values(d, keys \ {k})

total(d) == sum_values(d, DOMAIN d)

\* the example of the module comment
ExampleFish == <<3, 4, 3, 1, 2>>

Timers == 0..8

Schools ==
    {[in |-> fs, n |-> n] :
        fs \in UNION {[1..k -> Timers] : k \in 0..MaxFish}, n \in 0..MaxDays}
    \cup {[in |-> ExampleFish, n |-> 80]}

\* lines 86-92: the call, up to the first yield
InitFish ==
    /\ \E school \in Schools :
          /\ input = school.in
          /\ iterations = school.n
    /\ dict = load(<<>>, input, 1)
    /\ day = 0
    /\ yielded = <<>>
    /\ fpc = "first"
    /\ Idle10 /\ Idle4 /\ Idle2

\* line 93: yield sum(dict.values())
FirstYield ==
    /\ fpc = "first"
    /\ yielded' = yielded \o <<total(dict)>>
    /\ fpc' = "loop"
    /\ UNCHANGED <<input, iterations, dict, day>>
    /\ UNCHANGED <<vars10, vars4, vars2>>

\* lines 95-104: one round of the for loop, up to its yield
DayYield ==
    /\ fpc = "loop"
    /\ day < iterations
    /\ dict' = one_day(dict)
    /\ day' = day + 1
    /\ yielded' = yielded \o <<total(one_day(dict))>>
    /\ UNCHANGED <<input, iterations, fpc>>
    /\ UNCHANGED <<vars10, vars4, vars2>>

\* lines 106-107: the loop is over, the generator ends
Finish ==
    /\ fpc = "loop"
    /\ day = iterations
    /\ fpc' = "done"
    /\ UNCHANGED <<input, iterations, dict, day, yielded>>
    /\ UNCHANGED <<vars10, vars4, vars2>>

NextFish ==
    \/ FirstYield
    \/ DayYield
    \/ Finish

SpecFish == InitFish /\ [][NextFish]_vars

(***************************************************************************)
(* The rule fish by fish: each day a fish at 0 becomes 6 and adds a new    *)
(* fish at 8 to the end of the list, every other fish goes down by 1.      *)
(***************************************************************************)
ZerosOf(fs) == Cardinality({i \in 1..Len(fs) : fs[i] = 0})

NextDay(fs) ==
    [i \in 1..Len(fs) |-> IF fs[i] = 0 THEN 6 ELSE fs[i] - 1]
    \o [j \in 1..ZerosOf(fs) |-> 8]

\* the list after k days: k days are the first half of them, then the rest
RECURSIVE FishAfter(_, _)
FishAfter(fs, k) ==
    IF k = 0 THEN fs
    ELSE IF k = 1 THEN NextDay(fs)
    ELSE LET half == FishAfter(fs, k \div 2)
         IN  IF Len(half) >= 0 THEN FishAfter(half, k - (k \div 2)) ELSE <<>>

\* C13: the k-th value yielded is the number of fish after k days of the
\* rule fish by fish; it is the value before plus the number of fish that
\* were at 0; dict counts the fish of each timer, and no timer leaves 0..8;
\* the example gives 26 after 18 days and 5934 after 80.
C13_YieldsCountTheFish ==
    Len(yielded) >= 1 =>
        LET k   == Len(yielded) - 1
            now == FishAfter(input, k)
        IN  /\ k = day
            /\ yielded[k + 1] = Len(now)
            /\ k >= 1 => yielded[k + 1] = yielded[k] + ZerosOf(FishAfter(input, k - 1))
            /\ \A i \in 1..Len(now) : now[i] \in Timers
            /\ \A t \in DOMAIN dict :
                  dict[t] = Cardinality({i \in 1..Len(now) : now[i] = t})
            /\ (input = ExampleFish /\ k = 18) => yielded[k + 1] = 26
            /\ (input = ExampleFish /\ k = 80) => yielded[k + 1] = 5934

C13_Witness ==
    /\ input = ExampleFish
    /\ Len(yielded) = 81
    /\ yielded[19] = 26
    /\ yielded[81] = 5934
    /\ fpc = "done"

(***************************************************************************)
(* dec2.py (Day 2: Dive!).  A line of the program is the sequence of its   *)
(* words, el.split(" "); a number is written as the sequence of its        *)
(* decimal digits, which int() reads.                                      *)
(***************************************************************************)
\* most lines of a program
MaxProg == 3
\* largest one-digit argument
MaxArg == 2

\* int(cmd[1]) of a string of decimal digits
RECURSIVE to_int(_)
to_int(ds) ==
    IF ds = <<>> THEN 0
    ELSE 10 * to_int(SubSeq(ds, 1, Len(ds) - 1)) + ds[Len(ds)]

\* p2["forward"] with a fault: the forward of p1 (line 76)
p2_forward_flat(s, x) == [s EXCEPT !.x = s.x + x]

\* line 82
p2_forward(s, x) == [s EXCEPT !.x = s.x + x, !.d = s.d + (s.aim * x)]

\* line 83
p2_up(s, x) == [s EXCEPT !.aim = s.aim - x]

\* line 84
p2_down(s, x) == [s EXCEPT !.aim = s.aim + x]

\* the keys of p2
p2_keys == {"forward", "up", "down"}

\* cmdset[word](state, x)
p2(word, s, x) ==
    CASE word = "forward" -> p2_forward(s, x)
      [] word = "up"      -> p2_up(s, x)
      [] word = "down"    -> p2_down(s, x)

\* lines 93-94
move(s, cmd) ==
    IF cmd[1] \in p2_keys THEN p2(cmd[1], s, to_int(cmd[2])) ELSE s

\* the example of the module comment
ExampleCourse == <<
    <<"forward", <<5>>>>,
    <<"down", <<5>>>>,
    <<"forward", <<8>>>>,
    <<"up", <<3>>>>,
    <<"down", <<8>>>>,
    <<"forward", <<2>>>> >>

Numerals == {<<n>> : n \in 1..MaxArg} \cup {<<1, 0>>}

\* the lines of a file: the three commands, a command p2 does not have,
\* and the empty line
CourseLines ==
    {<<w, n>> : w \in {"forward", "up", "down", "back"}, n \in Numerals}
    \cup {<<"">>}

\* line 105: exec(prog, p2, {"x": 0, "d": 0, "aim": 0})
InitSub ==
    /\ program \in UNION {[1..k -> CourseLines] : k \in 0..MaxProg}
                   \cup {ExampleCourse}
    /\ ip = 0
    /\ state = [x |-> 0, d |-> 0, aim |-> 0]
    /\ Idle10 /\ Idle4 /\ Idle6

\* lines 96-98: one step of functools.reduce
Move ==
    /\ ip < Len(program)
    /\ state' = move(state, program[ip + 1])
    /\ ip' = ip + 1
    /\ UNCHANGED program
    /\ UNCHANGED <<vars10, vars4, vars6>>

NextSub == Move

SpecSub == InitSub /\ [][NextSub]_vars

(***************************************************************************)
(* The course by the rules of part two.                                    *)
(***************************************************************************)
RECURSIVE Pow10(_)
Pow10(n) == IF n = 0 THEN 1 ELSE 10 * Pow10(n - 1)

\* the number a numeral stands for, from its digit at place k on
RECURSIVE Decimal(_, _)
Decimal(ds, k) ==
    IF k > Len(ds) THEN 0
    ELSE ds[k] * Pow10(Len(ds) - k) + Decimal(ds, k + 1)

\* where the submarine is after the first k lines
RECURSIVE Course(_, _)
Course(prog, k) ==
    IF k = 0 THEN [x |-> 0, d |-> 0, aim |-> 0]
    ELSE LET before == Course(prog, k - 1)
             word   == prog[k][1]
         IN  IF word = "down"
             THEN [x |-> before.x, d |-> before.d,
                   aim |-> before.aim + Decimal(prog[k][2], 1)]
             ELSE IF word = "up"
             THEN [x |-> before.x, d |-> before.d,
                   aim |-> before.aim - Decimal(prog[k][2], 1)]
             ELSE IF word = "forward"
             THEN [x |-> before.x + Decimal(prog[k][2], 1),
                   d |-> before.d + before.aim * Decimal(prog[k][2], 1),
                   aim |-> before.aim]
             ELSE before

\* C14: from x = d = aim = 0, down X adds X to aim and up X takes X from
\* aim, both leaving x and d; forward X adds X to x and aim * X to d, aim
\* taken before the command, leaving aim; the commands are applied in
\* program order; a line whose word is not in the command set leaves the
\* state as it is; the example ends at x = 15, d = 60.
C14_CourseFollowsTheRules ==
    /\ state = Course(program, ip)
    /\ (program = ExampleCourse /\ ip = Len(program))
       => (state.x = 15 /\ state.d = 60)

C14_Witness ==
    /\ Len(program) = 3
    /\ ip = 3
    /\ program[1][1] = "down"
    /\ program[2][1] \notin {"forward", "up", "down"}
    /\ program[3] = <<"forward", <<1, 0>>>>
    /\ state.x = 10
    /\ state.d > 0

====
